---- MODULE Spec2Model ----
(***************************************************************************)
(* Model of utils/maybe_async/src/lib.rs: the two procedural macros        *)
(* maybe_async (attribute macro over a declaration) and maybe_await        *)
(* (function-like macro over an expression), both switched by the build    *)
(* feature "async".                                                        *)
(*                                                                         *)
(* A TokenStream is a sequence of tokens.  Tokens are strings; the parts   *)
(* the macros never look into are one token each: an attribute ("#[a]",    *)
(* "#![i]"), a parameter list ("()"), a generic parameter list ("<G>"), a  *)
(* where-clause ("where G: B"), a statement ("s;"), a non-method item      *)
(* ("type X;").  syn's parsers turn a token sequence into a syntax tree    *)
(* (a record), quote!/ToTokens turn a tree back into tokens.               *)
(***************************************************************************)
EXTENDS Naturals, Sequences, FiniteSets, TLC

VARIABLES async_feature, src, last, again, ncalls

vars == <<async_feature, src, last, again, ncalls>>

(***************************************************************************)
(* Bounds of the model.                                                    *)
(***************************************************************************)
\* items in the body of a trait or of an impl block
MaxItems == 2
\* tokens of an expression handed to maybe_await
MaxExprLen == 4
\* macro invocations in one behaviour
MaxCalls == 3

(***************************************************************************)
(* Token vocabulary.                                                       *)
(***************************************************************************)
CompatAnnotation == "#[async_trait::async_trait(?Send)]"

OuterAttrToks == {"#[a]", CompatAnnotation}
InnerAttrToks == {"#![i]"}
StmtToks == {"s;"}
FnIdents == {"f", "m"}
TraitIdents == {"T"}
TypeToks == {"S"}
PathToks == {"Tr"}
OtherItemToks == {"type X;"}

IsAt(ts, p, tok) == p <= Len(ts) /\ ts[p] = tok
InAt(ts, p, S) == p <= Len(ts) /\ ts[p] \in S

\* the position after the longest run of tokens of S that starts at p
RunEnd(ts, p, S) ==
  CHOOSE q \in p..(Len(ts) + 1) :
    (\A i \in p..(q - 1) : ts[i] \in S) /\ ~InAt(ts, q, S)

\* the tokens at positions a .. b-1
Slice(ts, a, b) == SubSeq(ts, a, b - 1)

\* zero or one token tok at p
OptTok(ts, p, tok) == IF IsAt(ts, p, tok) THEN <<tok>> ELSE <<>>

IsOuter(a) == a \in OuterAttrToks
IsInner(a) == a \in InnerAttrToks

(***************************************************************************)
(* syn: Signature, Block.                                                  *)
(***************************************************************************)
NoSig == [ok |-> FALSE, asyncness |-> FALSE, ident |-> "", pos |-> 0]

\* Signature::parse at p: [async] fn <ident> ()
ParseSignature(ts, p) ==
  LET p1 == IF IsAt(ts, p, "async") THEN p + 1 ELSE p
  IN  IF IsAt(ts, p1, "fn") /\ InAt(ts, p1 + 1, FnIdents) /\ IsAt(ts, p1 + 2, "()")
      THEN [ok |-> TRUE, asyncness |-> (p1 > p), ident |-> ts[p1 + 1], pos |-> p1 + 3]
      ELSE NoSig

\* Signature::to_tokens
SigToTokens(sig) ==
  (IF sig.asyncness THEN <<"async">> ELSE <<>>) \o <<"fn", sig.ident, "()">>

NoBlock == [ok |-> FALSE, inner |-> <<>>, stmts |-> <<>>, pos |-> 0]

\* a braced function body at p: { <inner attributes> <statements> }
ParseBody(ts, p) ==
  IF ~IsAt(ts, p, "{") THEN NoBlock
  ELSE LET a == RunEnd(ts, p + 1, InnerAttrToks)
           b == RunEnd(ts, a, StmtToks)
       IN  IF IsAt(ts, b, "}")
           THEN [ok |-> TRUE, inner |-> Slice(ts, p + 1, a),
                 stmts |-> Slice(ts, a, b), pos |-> b + 1]
           ELSE NoBlock

\* Block::to_tokens: the braces and the statements
BlockToTokens(stmts) == <<"{">> \o stmts \o <<"}">>

(***************************************************************************)
(* syn: ItemFn.                                                            *)
(***************************************************************************)
NoItemFn ==
  [ok |-> FALSE, attrs |-> <<>>, vis |-> <<>>,
   sig |-> [asyncness |-> FALSE, ident |-> ""], block |-> <<>>]

\* syn::parse::<ItemFn>: outer attributes, visibility, signature, body; the
\* body's inner attributes are appended to attrs; all input is consumed
ParseItemFn(ts) ==
  LET a    == RunEnd(ts, 1, OuterAttrToks)
      vis  == OptTok(ts, a, "pub")
      sig  == ParseSignature(ts, a + Len(vis))
      body == IF sig.ok THEN ParseBody(ts, sig.pos) ELSE NoBlock
  IN  IF sig.ok /\ body.ok /\ body.pos = Len(ts) + 1
      THEN [ok |-> TRUE, attrs |-> Slice(ts, 1, a) \o body.inner, vis |-> vis,
            sig |-> [asyncness |-> sig.asyncness, ident |-> sig.ident],
            block |-> body.stmts]
      ELSE NoItemFn

\* ItemFn::to_tokens
ItemFnToTokens(func) ==
  SelectSeq(func.attrs, IsOuter) \o func.vis \o SigToTokens(func.sig)
    \o <<"{">> \o SelectSeq(func.attrs, IsInner) \o func.block \o <<"}">>

(***************************************************************************)
(* syn: TraitItem, TraitItemFn, ImplItem, ImplItemFn.  One record shape    *)
(* serves every item: kind "Fn" (a method) or "Other" (a non-method item,  *)
(* kept as the one token tok).                                             *)
(***************************************************************************)
NoItem ==
  [kind |-> "None", attrs |-> <<>>, vis |-> <<>>,
   sig |-> [asyncness |-> FALSE, ident |-> ""],
   hasBlock |-> FALSE, block |-> <<>>, tok |-> ""]

NoItemAt == [ok |-> FALSE, item |-> NoItem, pos |-> 0]

\* TraitItem::parse at p: outer attributes, then a non-method item or a
\* signature followed by a default body or by ";"
ParseTraitItemAt(ts, p) ==
  LET a     == RunEnd(ts, p, OuterAttrToks)
      outer == Slice(ts, p, a)
      sig   == ParseSignature(ts, a)
      body  == IF sig.ok THEN ParseBody(ts, sig.pos) ELSE NoBlock
  IN  IF InAt(ts, a, OtherItemToks)
      THEN [ok |-> TRUE, pos |-> a + 1,
            item |-> [NoItem EXCEPT !.kind = "Other", !.attrs = outer, !.tok = ts[a]]]
      ELSE IF sig.ok /\ IsAt(ts, sig.pos, ";")
      THEN [ok |-> TRUE, pos |-> sig.pos + 1,
            item |-> [NoItem EXCEPT !.kind = "Fn", !.attrs = outer,
                        !.sig = [asyncness |-> sig.asyncness, ident |-> sig.ident]]]
      ELSE IF sig.ok /\ body.ok
      THEN [ok |-> TRUE, pos |-> body.pos,
            item |-> [NoItem EXCEPT !.kind = "Fn", !.attrs = outer \o body.inner,
                        !.sig = [asyncness |-> sig.asyncness, ident |-> sig.ident],
                        !.hasBlock = TRUE, !.block = body.stmts]]
      ELSE NoItemAt

\* syn::parse::<TraitItemFn>: a method of a trait and nothing after it.
\* The result has the fields attrs, sig, default (hasBlock, block) and
\* semi_token (present exactly when there is no default body)
ParseTraitItemFn(ts) ==
  LET r == ParseTraitItemAt(ts, 1)
  IN  IF r.ok /\ r.item.kind = "Fn" /\ r.pos = Len(ts) + 1
      THEN [ok |-> TRUE, item |-> r.item]
      ELSE [ok |-> FALSE, item |-> NoItem]

\* TraitItem::to_tokens
TraitItemToTokens(it) ==
  IF it.kind = "Other" THEN SelectSeq(it.attrs, IsOuter) \o <<it.tok>>
  ELSE SelectSeq(it.attrs, IsOuter) \o SigToTokens(it.sig)
         \o (IF it.hasBlock
             THEN <<"{">> \o SelectSeq(it.attrs, IsInner) \o it.block \o <<"}">>
             ELSE <<";">>)

\* ImplItem::parse at p: outer attributes, then a non-method item or
\* visibility, signature and body
ParseImplItemAt(ts, p) ==
  LET a     == RunEnd(ts, p, OuterAttrToks)
      outer == Slice(ts, p, a)
      vis   == OptTok(ts, a, "pub")
      sig   == ParseSignature(ts, a + Len(vis))
      body  == IF sig.ok THEN ParseBody(ts, sig.pos) ELSE NoBlock
  IN  IF InAt(ts, a, OtherItemToks)
      THEN [ok |-> TRUE, pos |-> a + 1,
            item |-> [NoItem EXCEPT !.kind = "Other", !.attrs = outer, !.tok = ts[a]]]
      ELSE IF sig.ok /\ body.ok
      THEN [ok |-> TRUE, pos |-> body.pos,
            item |-> [NoItem EXCEPT !.kind = "Fn", !.attrs = outer \o body.inner,
                        !.vis = vis,
                        !.sig = [asyncness |-> sig.asyncness, ident |-> sig.ident],
                        !.hasBlock = TRUE, !.block = body.stmts]]
      ELSE NoItemAt

\* ImplItem::to_tokens
ImplItemToTokens(it) ==
  IF it.kind = "Other" THEN SelectSeq(it.attrs, IsOuter) \o <<it.tok>>
  ELSE SelectSeq(it.attrs, IsOuter) \o it.vis \o SigToTokens(it.sig)
         \o <<"{">> \o SelectSeq(it.attrs, IsInner) \o it.block \o <<"}">>

\* the items of a trait body from p up to its closing brace
RECURSIVE ParseTraitItems(_, _)
ParseTraitItems(ts, p) ==
  IF IsAt(ts, p, "}") THEN [ok |-> TRUE, items |-> <<>>, pos |-> p]
  ELSE LET one == ParseTraitItemAt(ts, p)
       IN  IF ~one.ok THEN [ok |-> FALSE, items |-> <<>>, pos |-> p]
           ELSE LET rest == ParseTraitItems(ts, one.pos)
                IN  [ok |-> rest.ok, items |-> <<one.item>> \o rest.items,
                     pos |-> rest.pos]

\* the items of an impl body from p up to its closing brace
RECURSIVE ParseImplItems(_, _)
ParseImplItems(ts, p) ==
  IF IsAt(ts, p, "}") THEN [ok |-> TRUE, items |-> <<>>, pos |-> p]
  ELSE LET one == ParseImplItemAt(ts, p)
       IN  IF ~one.ok THEN [ok |-> FALSE, items |-> <<>>, pos |-> p]
           ELSE LET rest == ParseImplItems(ts, one.pos)
                IN  [ok |-> rest.ok, items |-> <<one.item>> \o rest.items,
                     pos |-> rest.pos]

\* #( #items )* over trait items
RECURSIVE TraitItemsToTokens(_)
TraitItemsToTokens(items) ==
  IF items = <<>> THEN <<>>
  ELSE TraitItemToTokens(Head(items)) \o TraitItemsToTokens(Tail(items))

\* #( #items )* over impl items
RECURSIVE ImplItemsToTokens(_)
ImplItemsToTokens(items) ==
  IF items = <<>> THEN <<>>
  ELSE ImplItemToTokens(Head(items)) \o ImplItemsToTokens(Tail(items))

(***************************************************************************)
(* syn: Generics, ItemTrait, ItemImpl.                                     *)
(***************************************************************************)
\* Generics::to_tokens: the angle-bracketed parameters; the where-clause
\* is a field of Generics that is printed only on its own
GenericsToTokens(generics) == generics.params

NoItemTrait ==
  [ok |-> FALSE, attrs |-> <<>>, vis |-> <<>>, unsafety |-> <<>>,
   auto_token |-> <<>>, ident |-> "",
   generics |-> [params |-> <<>>, where_clause |-> <<>>],
   supertraits |-> <<>>, items |-> <<>>]

\* syn::parse::<ItemTrait>: attributes, visibility, unsafe, auto, trait,
\* name, generic parameters, ": supertraits", where-clause, braced items
ParseItemTrait(ts) ==
  LET a      == RunEnd(ts, 1, OuterAttrToks)
      vis    == OptTok(ts, a, "pub")
      p1     == a + Len(vis)
      unsf   == OptTok(ts, p1, "unsafe")
      p2     == p1 + Len(unsf)
      auto   == OptTok(ts, p2, "auto")
      p3     == p2 + Len(auto)
      head   == IsAt(ts, p3, "trait") /\ InAt(ts, p3 + 1, TraitIdents)
      p4     == p3 + 2
      params == OptTok(ts, p4, "<G>")
      p5     == p4 + Len(params)
      super  == IF IsAt(ts, p5, ":") /\ IsAt(ts, p5 + 1, "Sup")
                THEN <<":", "Sup">> ELSE <<>>
      p6     == p5 + Len(super)
      wh     == OptTok(ts, p6, "where G: B")
      p7     == p6 + Len(wh)
      b      == RunEnd(ts, p7 + 1, InnerAttrToks)
      its    == ParseTraitItems(ts, b)
  IN  IF head /\ IsAt(ts, p7, "{") /\ its.ok /\ its.pos = Len(ts)
      THEN [ok |-> TRUE, attrs |-> Slice(ts, 1, a) \o Slice(ts, p7 + 1, b),
            vis |-> vis, unsafety |-> unsf, auto_token |-> auto,
            ident |-> ts[p3 + 1],
            generics |-> [params |-> params, where_clause |-> wh],
            supertraits |-> super, items |-> its.items]
      ELSE NoItemTrait

NoItemImpl ==
  [ok |-> FALSE, attrs |-> <<>>, unsafety |-> <<>>,
   generics |-> [params |-> <<>>, where_clause |-> <<>>],
   trait_ |-> <<>>, self_ty |-> "", items |-> <<>>]

\* syn::parse::<ItemImpl>: attributes, unsafe, impl, generic parameters,
\* optionally "[!] Trait for", the self type, where-clause, braced items.
\* trait_ is <<>> (None) or the tokens of (bang, path, for)
ParseItemImpl(ts) ==
  LET a      == RunEnd(ts, 1, OuterAttrToks)
      unsf   == OptTok(ts, a, "unsafe")
      p1     == a + Len(unsf)
      p2     == p1 + 1
      params == OptTok(ts, p2, "<G>")
      p3     == p2 + Len(params)
      bang   == OptTok(ts, p3, "!")
      p4     == p3 + Len(bang)
      tr     == IF InAt(ts, p4, PathToks) /\ IsAt(ts, p4 + 1, "for")
                THEN bang \o <<ts[p4], "for">> ELSE <<>>
      p5     == p3 + Len(tr)
      wh     == OptTok(ts, p5 + 1, "where G: B")
      p6     == p5 + 1 + Len(wh)
      b      == RunEnd(ts, p6 + 1, InnerAttrToks)
      its    == ParseImplItems(ts, b)
  IN  IF /\ IsAt(ts, p1, "impl") /\ (bang = <<>> \/ tr # <<>>)
         /\ InAt(ts, p5, TypeToks) /\ IsAt(ts, p6, "{")
         /\ its.ok /\ its.pos = Len(ts)
      THEN [ok |-> TRUE, attrs |-> Slice(ts, 1, a) \o Slice(ts, p6 + 1, b),
            unsafety |-> unsf,
            generics |-> [params |-> params, where_clause |-> wh],
            trait_ |-> tr, self_ty |-> ts[p5], items |-> its.items]
      ELSE NoItemImpl

\* ItemImpl::to_tokens
ItemImplToTokens(impl) ==
  SelectSeq(impl.attrs, IsOuter) \o impl.unsafety \o <<"impl">>
    \o GenericsToTokens(impl.generics) \o impl.trait_ \o <<impl.self_ty>>
    \o impl.generics.where_clause
    \o <<"{">> \o SelectSeq(impl.attrs, IsInner)
    \o ImplItemsToTokens(impl.items) \o <<"}">>

(***************************************************************************)
(* maybe_async: the rewrite of each recognised shape.  Every rule reads    *)
(* cfg!(feature = "async"), the variable async_feature.                    *)
(***************************************************************************)
\* sig.asyncness = Some(Async::default())
SetAsync(sig) == [sig EXCEPT !.asyncness = TRUE]

\* the branch for a function: #(#attrs)* #vis #sig { #block }, or #func
FreeFunctionRule(func) ==
  IF async_feature
  THEN func.attrs \o func.vis \o SigToTokens(SetAsync(func.sig))
         \o <<"{">> \o BlockToTokens(func.block) \o <<"}">>
  ELSE ItemFnToTokens(func)

\* the branch for a trait function: #(#attrs)* #sig #default #semi_token,
\* or #func
TraitMethodRule(func) ==
  IF async_feature
  THEN func.attrs \o SigToTokens(SetAsync(func.sig))
         \o (IF func.hasBlock THEN BlockToTokens(func.block) ELSE <<>>)
         \o (IF func.hasBlock THEN <<>> ELSE <<";">>)
  ELSE TraitItemToTokens(func)

\* a faulty variant: the methods are left as they were
MarkMethodSkipped(item) == item

\* items.iter_mut().for_each: asyncness is set on the Fn items only
MarkMethod(item) ==
  IF item.kind = "Fn" THEN [item EXCEPT !.sig = SetAsync(item.sig)] ELSE item

MarkMethods(items) == [i \in 1..Len(items) |-> MarkMethod(items[i])]

\* the branch for a trait definition: in both modes
\* #vis trait #trait_ident #trait_generics { #( #items )* }, in enabled mode
\* after the async_trait attribute and with the methods marked
TraitDefinitionRule(trait_item) ==
  IF async_feature
  THEN <<CompatAnnotation>> \o trait_item.vis \o <<"trait", trait_item.ident>>
         \o GenericsToTokens(trait_item.generics)
         \o <<"{">> \o TraitItemsToTokens(MarkMethods(trait_item.items)) \o <<"}">>
  ELSE trait_item.vis \o <<"trait", trait_item.ident>>
         \o GenericsToTokens(trait_item.generics)
         \o <<"{">> \o TraitItemsToTokens(trait_item.items) \o <<"}">>

\* the branch for an impl block: in enabled mode the async_trait attribute,
\* then impl #impl_generics #bang #trait_path #for_token #self_ty { items }
\* or impl #impl_generics #self_ty { items }; in disabled mode #impl_item
ImplBlockRule(impl_item) ==
  IF async_feature
  THEN IF impl_item.trait_ # <<>>
       THEN <<CompatAnnotation, "impl">> \o GenericsToTokens(impl_item.generics)
              \o impl_item.trait_ \o <<impl_item.self_ty>>
              \o <<"{">> \o ImplItemsToTokens(MarkMethods(impl_item.items)) \o <<"}">>
       ELSE <<CompatAnnotation, "impl">> \o GenericsToTokens(impl_item.generics)
              \o <<impl_item.self_ty>>
              \o <<"{">> \o ImplItemsToTokens(MarkMethods(impl_item.items)) \o <<"}">>
  ELSE ItemImplToTokens(impl_item)

\* a faulty variant: an input of no known shape is dropped
FallbackEmpty(input) == <<>>

\* the last branch: the input itself
Fallback(input) == input

\* what a macro hands back to the compiler: a token stream
Tokens(ts) == [kind |-> "tokens", ts |-> ts, span |-> 0, msg |-> ""]

\* the result of each branch of maybe_async
AsFreeFunction(input) ==
  [shape |-> "FreeFunction", out |-> Tokens(FreeFunctionRule(ParseItemFn(input)))]

AsTraitMethod(input) ==
  [shape |-> "TraitMethod",
   out |-> Tokens(TraitMethodRule(ParseTraitItemFn(input).item))]

AsTraitDefinition(input) ==
  [shape |-> "TraitDefinition",
   out |-> Tokens(TraitDefinitionRule(ParseItemTrait(input)))]

AsImplBlock(input) ==
  [shape |-> "ImplBlock", out |-> Tokens(ImplBlockRule(ParseItemImpl(input)))]

AsUnrecognized(input) ==
  [shape |-> "Unrecognized", out |-> Tokens(Fallback(input))]

\* a faulty variant: the trait function is tried before the function
maybe_async_trait_fn_first(attr, input) ==
  IF ParseTraitItemFn(input).ok THEN AsTraitMethod(input)
  ELSE IF ParseItemFn(input).ok THEN AsFreeFunction(input)
  ELSE IF ParseItemTrait(input).ok THEN AsTraitDefinition(input)
  ELSE IF ParseItemImpl(input).ok THEN AsImplBlock(input)
  ELSE AsUnrecognized(input)

\* a faulty variant: an annotation with arguments is left alone
maybe_async_reads_attr(attr, input) ==
  IF attr # <<>> THEN AsUnrecognized(input)
  ELSE IF ParseItemFn(input).ok THEN AsFreeFunction(input)
  ELSE IF ParseTraitItemFn(input).ok THEN AsTraitMethod(input)
  ELSE IF ParseItemTrait(input).ok THEN AsTraitDefinition(input)
  ELSE IF ParseItemImpl(input).ok THEN AsImplBlock(input)
  ELSE AsUnrecognized(input)

\* pub fn maybe_async(_attr, input): the first parse that succeeds decides
\* the shape
maybe_async(attr, input) ==
  IF ParseItemFn(input).ok THEN AsFreeFunction(input)
  ELSE IF ParseTraitItemFn(input).ok THEN AsTraitMethod(input)
  ELSE IF ParseItemTrait(input).ok THEN AsTraitDefinition(input)
  ELSE IF ParseItemImpl(input).ok THEN AsImplBlock(input)
  ELSE AsUnrecognized(input)

(***************************************************************************)
(* syn: Expr.  The expressions are those over the tokens of ExprToks: a    *)
(* path "x", the unit tuple "()", a call e(), e.await, a field e.x, a      *)
(* method call e.x(), and a binary e + e.                                  *)
(***************************************************************************)
ExprToks == {"x", "()", "+", ".", "await"}

NoExpr == [node |-> "None"]

ExprOk(ast, pos) == [ok |-> TRUE, ast |-> ast, pos |-> pos, span |-> 0, msg |-> ""]

\* a syn::Error: the place (a token position, Len + 1 for the end of the
\* input) and the message
ExprErr(span, msg) == [ok |-> FALSE, ast |-> NoExpr, pos |-> 0, span |-> span, msg |-> msg]

\* the postfix operators that follow the operand e, from p on
RECURSIVE ParsePostfix(_, _, _)
ParsePostfix(ts, p, e) ==
  IF IsAt(ts, p, "()")
  THEN ParsePostfix(ts, p + 1, [node |-> "Call", func |-> e])
  ELSE IF IsAt(ts, p, ".")
  THEN IF IsAt(ts, p + 1, "await")
       THEN ParsePostfix(ts, p + 2, [node |-> "Await", base |-> e])
       ELSE IF IsAt(ts, p + 1, "x")
       THEN IF IsAt(ts, p + 2, "()")
            THEN ParsePostfix(ts, p + 3, [node |-> "MethodCall", receiver |-> e])
            ELSE ParsePostfix(ts, p + 2, [node |-> "Field", base |-> e])
       ELSE IF p + 1 > Len(ts)
       THEN ExprErr(p + 1, "unexpected end of input, expected identifier or integer")
       ELSE ExprErr(p + 1, "expected identifier or integer")
  ELSE ExprOk(e, p)

\* an operand: a path or the unit tuple, then its postfix operators
ParseOperand(ts, p) ==
  IF IsAt(ts, p, "x") THEN ParsePostfix(ts, p + 1, [node |-> "Path"])
  ELSE IF IsAt(ts, p, "()") THEN ParsePostfix(ts, p + 1, [node |-> "Tuple"])
  ELSE IF p > Len(ts)
  THEN ExprErr(p, "unexpected end of input, expected an expression")
  ELSE ExprErr(p, "expected an expression")

\* the binary operators that follow the left operand, left-associative
RECURSIVE ParseBinary(_, _, _)
ParseBinary(ts, p, left) ==
  IF IsAt(ts, p, "+")
  THEN LET r == ParseOperand(ts, p + 1)
       IN  IF r.ok
           THEN ParseBinary(ts, r.pos, [node |-> "Binary", left |-> left, right |-> r.ast])
           ELSE r
  ELSE ExprOk(left, p)

\* syn::parse::<Expr>: one expression and nothing after it
ParseExpr(ts) ==
  LET first == ParseOperand(ts, 1)
      whole == IF first.ok THEN ParseBinary(ts, first.pos, first.ast) ELSE first
  IN  IF whole.ok /\ whole.pos # Len(ts) + 1
      THEN ExprErr(whole.pos, "unexpected token")
      ELSE whole

\* Expr::to_tokens
RECURSIVE ExprToTokens(_)
ExprToTokens(e) ==
  CASE e.node = "Path" -> <<"x">>
    [] e.node = "Tuple" -> <<"()">>
    [] e.node = "Call" -> ExprToTokens(e.func) \o <<"()">>
    [] e.node = "Await" -> ExprToTokens(e.base) \o <<".", "await">>
    [] e.node = "Field" -> ExprToTokens(e.base) \o <<".", "x">>
    [] e.node = "MethodCall" -> ExprToTokens(e.receiver) \o <<".", "x", "()">>
    [] e.node = "Binary" -> ExprToTokens(e.left) \o <<"+">> \o ExprToTokens(e.right)

(***************************************************************************)
(* maybe_await.                                                            *)
(***************************************************************************)
\* a faulty variant: a parse failure is reported as a generic error at the call site
ToGenericError(err) ==
  [kind |-> "compile_error", ts |-> <<>>, span |-> 0, msg |-> "invalid expression"]

\* parse_macro_input!, the Err arm: return err.to_compile_error(), a
\* compile_error! invocation with the error's message at the error's span
ToCompileError(err) ==
  [kind |-> "compile_error", ts |-> <<>>, span |-> err.span, msg |-> err.msg]

\* a faulty variant: .await is appended whatever the feature
AwaitRuleAlways(item) == ExprToTokens(item) \o <<".", "await">>

\* quote!(#item.await) or quote!(#item)
AwaitRule(item) ==
  IF async_feature
  THEN ExprToTokens(item) \o <<".", "await">>
  ELSE ExprToTokens(item)

\* pub fn maybe_await(input)
maybe_await(input) ==
  LET item == ParseExpr(input)
  IN  IF ~item.ok
      THEN [shape |-> "Error", out |-> ToCompileError(item)]
      ELSE [shape |-> "Expr", out |-> Tokens(AwaitRule(item.ast))]

(***************************************************************************)
(* The inputs.                                                             *)
(***************************************************************************)
\* the concatenations of at most n elements of S
RECURSIVE Concats(_, _)
Concats(S, n) ==
  IF n = 0 THEN {<<>>}
  ELSE LET B == Concats(S, n - 1) IN B \cup {b \o e : b \in B, e \in S}

\* the sequences over S of length at most n
RECURSIVE SeqsUpTo(_, _)
SeqsUpTo(S, n) ==
  IF n = 0 THEN {<<>>}
  ELSE LET B == SeqsUpTo(S, n - 1) IN B \cup {Append(b, e) : b \in B, e \in S}

FnSrc ==
  { outer \o vis \o asy \o <<"fn", "f", "()">> \o tail :
      outer \in {<<>>, <<"#[a]">>}, vis \in {<<>>, <<"pub">>},
      asy \in {<<>>, <<"async">>},
      tail \in {<<";">>, <<"{", "}">>, <<"{", "s;", "}">>, <<"{", "#![i]", "s;", "}">>} }

TraitItemSrc ==
  { <<"fn", "m", "()", ";">>, <<"async", "fn", "m", "()", ";">>,
    <<"#[a]", "fn", "m", "()", "{", "s;", "}">>,
    <<"fn", "m", "()", "{", "#![i]", "}">>, <<"type X;">> }

ImplItemSrc ==
  { <<"fn", "m", "()", "{", "s;", "}">>, <<"async", "fn", "m", "()", "{", "}">>,
    <<"#[a]", "pub", "fn", "m", "()", "{", "s;", "}">>, <<"type X;">> }

GenericsSrc == {<<>>, <<"<G>">>}
WhereSrc == {<<>>, <<"where G: B">>}

\* the optional parts before the body of a block: none of them, each of
\* them alone, and all of them together
Decorated(d) == Cardinality({f \in DOMAIN d : d[f] # <<>>})

TraitHeadSrc ==
  { d \in [outer : {<<>>, <<"#[a]">>}, vis : {<<>>, <<"pub">>},
           qual : {<<>>, <<"unsafe">>}, gen : GenericsSrc,
           super : {<<>>, <<":", "Sup">>}, wh : WhereSrc] :
      Decorated(d) \in {0, 1, 6} }

TraitSrc ==
  { d.outer \o d.vis \o d.qual \o <<"trait", "T">> \o d.gen \o d.super \o d.wh
      \o <<"{">> \o body \o <<"}">> :
      d \in TraitHeadSrc, body \in Concats(TraitItemSrc, MaxItems) }

ImplHeadSrc ==
  { d \in [outer : {<<>>, <<"#[a]">>}, qual : {<<>>, <<"unsafe">>},
           gen : GenericsSrc, wh : WhereSrc] :
      Decorated(d) \in {0, 1, 4} }

ImplSrc ==
  { d.outer \o d.qual \o <<"impl">> \o d.gen \o tr \o <<"S">> \o d.wh
      \o <<"{">> \o body \o <<"}">> :
      d \in ImplHeadSrc, tr \in {<<>>, <<"Tr", "for">>, <<"!", "Tr", "for">>},
      body \in Concats(ImplItemSrc, MaxItems) }

\* neither a function, a trait function, a trait nor an impl block
OtherSrc ==
  { <<>>, <<"struct", "S", ";">>, <<"#[a]", "struct", "S", ";">>,
    <<"fn", "f", "()">>, <<"trait", "T", "{">>, <<"impl", "{", "}">>,
    <<"trait", "T", "{", "pub", "fn", "m", "()", ";", "}">> }

\* blocks that carry the async_trait attribute already
AnnotatedSrc ==
  { <<CompatAnnotation, "trait", "T", "{", "fn", "m", "()", ";", "}">>,
    <<CompatAnnotation, "impl", "S", "{", "fn", "m", "()", "{", "}", "}">> }

DeclInputs == FnSrc \cup TraitSrc \cup ImplSrc \cup OtherSrc \cup AnnotatedSrc

ExprInputs == SeqsUpTo(ExprToks, MaxExprLen)

\* the annotation's own argument tokens: #[maybe_async] or #[maybe_async(x)]
AttrArgs == {<<>>, <<"x">>}

(***************************************************************************)
(* The compiler expanding one macro invocation of the crate.  src is the   *)
(* invocation as written in the source (the macro and its input tokens),   *)
(* last its first expansion, again the latest repeated expansion of the    *)
(* same input (a compiler may expand an invocation any number of times);   *)
(* ncalls counts the expansions.                                           *)
(***************************************************************************)
NoCall ==
  [macro |-> "none", attr |-> <<>>, input |-> <<>>, shape |-> "",
   out |-> Tokens(<<>>), n |-> 0]

Call(macro, attr, input, r) ==
  [macro |-> macro, attr |-> attr, input |-> input, shape |-> r.shape,
   out |-> r.out, n |-> ncalls + 1]

Sources ==
  [macro : {"maybe_async"}, input : DeclInputs]
    \cup [macro : {"maybe_await"}, input : ExprInputs]

Init ==
  /\ async_feature \in BOOLEAN
  /\ src \in Sources
  /\ last = NoCall
  /\ again = NoCall
  /\ ncalls = 0

\* the compiler expands #[maybe_async(attr)] over the item src.input
ExpandMaybeAsync(attr) ==
  /\ src.macro = "maybe_async"
  /\ last = NoCall
  /\ last' = Call("maybe_async", attr, src.input, maybe_async(attr, src.input))
  /\ ncalls' = ncalls + 1
  /\ UNCHANGED <<async_feature, src, again>>

\* the compiler expands maybe_await!(src.input)
ExpandMaybeAwait ==
  /\ src.macro = "maybe_await"
  /\ last = NoCall
  /\ last' = Call("maybe_await", <<>>, src.input, maybe_await(src.input))
  /\ ncalls' = ncalls + 1
  /\ UNCHANGED <<async_feature, src, again>>

\* the compiler expands the same invocation once more, the annotation's
\* arguments being any
ExpandAgain(attr) ==
  /\ last # NoCall
  /\ ncalls < MaxCalls
  /\ again' = IF src.macro = "maybe_async"
              THEN Call("maybe_async", attr, src.input, maybe_async(attr, src.input))
              ELSE Call("maybe_await", <<>>, src.input, maybe_await(src.input))
  /\ ncalls' = ncalls + 1
  /\ UNCHANGED <<async_feature, src, last>>

Next ==
  \/ \E attr \in AttrArgs : ExpandMaybeAsync(attr)
  \/ ExpandMaybeAwait
  \/ \E attr \in AttrArgs : ExpandAgain(attr)

Spec == Init /\ [][Next]_vars

(***************************************************************************)
(* The claims.                                                             *)
(***************************************************************************)
\* the expansions made so far
Calls == {c \in {last, again} : c.macro # "none"}

DeclCalls == {c \in Calls : c.macro = "maybe_async"}

ExprCalls == {c \in Calls : c.macro = "maybe_await"}

Count(ts, tok) == Cardinality({i \in 1..Len(ts) : ts[i] = tok})

\* ts with "async" put before every "fn" that has none
RECURSIVE WithMarkers(_, _)
WithMarkers(ts, i) ==
  IF i > Len(ts) THEN <<>>
  ELSE (IF ts[i] = "fn" /\ (i = 1 \/ ts[i - 1] # "async")
        THEN <<"async", "fn">> ELSE <<ts[i]>>) \o WithMarkers(ts, i + 1)

Recognized(ts) ==
  ParseItemFn(ts).ok \/ ParseTraitItemFn(ts).ok \/ ParseItemTrait(ts).ok
    \/ ParseItemImpl(ts).ok

\* C1 (as stated): in disabled mode the expansion of an input of a
\* recognised shape is the input, token for token
C1_DisabledIsIdentity ==
  \A c \in DeclCalls :
    (~async_feature /\ Recognized(c.input)) => c.out = Tokens(c.input)

\* C2: in enabled mode the expansion of a trait definition or impl block with
\* k methods holds k "async" markers, one before each method's "fn" and none
\* elsewhere, and exactly one async_trait attribute, in front
C2_MarkerInjectionComplete ==
  \A c \in DeclCalls :
    (async_feature /\ (ParseItemTrait(c.input).ok \/ ParseItemImpl(c.input).ok)) =>
      LET out == c.out.ts
          k   == Count(c.input, "fn")
      IN  /\ c.out.kind = "tokens"
          /\ Count(out, "fn") = k
          /\ Count(out, "async") = k
          /\ \A i \in 1..Len(out) : out[i] = "fn" => (i > 1 /\ out[i - 1] = "async")
          /\ Count(out, CompatAnnotation) = 1
          /\ out[1] = CompatAnnotation

\* a trait-implementation block with two methods, one marked already, has
\* been expanded in enabled mode
C2_Witness ==
  /\ last.macro = "maybe_async" /\ async_feature
  /\ last.shape = "ImplBlock"
  /\ Count(last.input, "for") = 1
  /\ Count(last.input, "fn") = 2 /\ Count(last.input, "async") = 1
  /\ Count(last.out.ts, "async") = 2

\* C3 (as stated): in enabled mode the expansion of a free function is the
\* input with the marker set and nothing else changed, the body included
C3_FreeFunctionBodyUnchanged ==
  \A c \in DeclCalls :
    (async_feature /\ ParseItemFn(c.input).ok) =>
      c.out = Tokens(WithMarkers(c.input, 1))

\* C4: an input of none of the four shapes comes back as it is, in both
\* modes, as tokens and not as an error
C4_UnrecognizedPassThrough ==
  \A c \in DeclCalls :
    ~Recognized(c.input) =>
      /\ c.shape = "Unrecognized"
      /\ c.out = Tokens(c.input)

\* a struct definition has been expanded in enabled mode
C4_Witness ==
  /\ last.macro = "maybe_async" /\ async_feature
  /\ last.input = <<"struct", "S", ";">>
  /\ last.shape = "Unrecognized"

\* C5 (as stated): in enabled mode the expansion of a trait definition is
\* the input with the methods marked, after the one async_trait attribute
C5_TraitOnlyMarkersAndAnnotation ==
  \A c \in DeclCalls :
    (async_feature /\ c.shape = "TraitDefinition") =>
      c.out = Tokens(<<CompatAnnotation>> \o WithMarkers(c.input, 1))

\* C6 (as stated): in enabled mode the expansion of an impl block is the
\* input with the methods marked, after the one async_trait attribute
C6_ImplOnlyMarkersAndAnnotation ==
  \A c \in DeclCalls :
    (async_feature /\ c.shape = "ImplBlock") =>
      c.out = Tokens(<<CompatAnnotation>> \o WithMarkers(c.input, 1))

\* C7: a well-formed expression comes back unchanged in disabled mode and
\* followed by one ".await" in enabled mode
C7_ExpressionRoundTrip ==
  \A c \in ExprCalls :
    ParseExpr(c.input).ok =>
      c.out = Tokens(IF async_feature THEN c.input \o <<".", "await">> ELSE c.input)

\* world() has been expanded to world().await
C7_Witness ==
  /\ last.macro = "maybe_await" /\ async_feature
  /\ last.input = <<"x", "()">>
  /\ last.out.ts = <<"x", "()", ".", "await">>

\* C8: maybe_await over an input that is no expression yields a compile
\* error with the parse error's place and message, and no tokens, in both
\* modes; maybe_async never yields an error
C8_ParseFailureSurfaces ==
  /\ \A c \in ExprCalls :
       ~ParseExpr(c.input).ok =>
         /\ c.out.kind = "compile_error"
         /\ c.out.ts = <<>>
         /\ c.out.span = ParseExpr(c.input).span
         /\ c.out.msg = ParseExpr(c.input).msg
  /\ \A c \in DeclCalls : c.out.kind = "tokens"

\* "x +" has been expanded in disabled mode: the error is at the end of
\* the input
C8_Witness ==
  /\ last.macro = "maybe_await" /\ ~async_feature
  /\ last.input = <<"x", "+">>
  /\ last.out.kind = "compile_error" /\ last.out.span = 3

\* the first shape, in the order function, trait function, trait, impl
\* block, that the input parses as
FirstMatch(ts) ==
  IF ParseItemFn(ts).ok THEN "FreeFunction"
  ELSE IF ParseTraitItemFn(ts).ok THEN "TraitMethod"
  ELSE IF ParseItemTrait(ts).ok THEN "TraitDefinition"
  ELSE IF ParseItemImpl(ts).ok THEN "ImplBlock"
  ELSE "Unrecognized"

\* C9: the shape chosen is the first that matches, and an input that is
\* both a function and a trait function with a default body is rewritten
\* by the rule for functions
C9_DispatchOrder ==
  \A c \in DeclCalls :
    /\ c.shape = FirstMatch(c.input)
    /\ (ParseItemFn(c.input).ok /\ ParseTraitItemFn(c.input).ok) =>
         c.out = Tokens(FreeFunctionRule(ParseItemFn(c.input)))

\* a function without visibility, which is a trait function with a default
\* body too, has been expanded in enabled mode
C9_Witness ==
  /\ last.macro = "maybe_async" /\ async_feature
  /\ ParseItemFn(last.input).ok /\ ParseTraitItemFn(last.input).ok
  /\ last.shape = "FreeFunction"
  /\ last.out # Tokens(TraitMethodRule(ParseTraitItemFn(last.input).item))

====
